---- MODULE Spec2Model ----
(***************************************************************************)
(* A model of turkic/api.py: the Server client that maps named operations  *)
(* onto calls of the remote MTurk client, and the Response object that     *)
(* extracts fields of a nested reply.                                      *)
(*                                                                         *)
(* Python values are tagged records [t |-> tag, v |-> payload]:            *)
(*   none   None                                                           *)
(*   str    a string, v the sequence of its characters                     *)
(*   int    an integer                                                     *)
(*   float  a decimal number, v the number scaled by 10^FloatDigits        *)
(*   dict   a mapping, v a function from key names to values               *)
(***************************************************************************)
EXTENDS Integers, Sequences, FiniteSets, TLC

VARIABLES
    ncalls,     \* number of calls issued on the remote client since construction
    issued,     \* the remote calls the last invocation issued, in order
    inv,        \* the last invocation: [method, args]
    out,        \* its outcome: a returned value or a raised exception
    resp        \* the Response object most recently constructed

vars == <<ncalls, issued, inv, out, resp>>

(***************************************************************************)
(* Bounds of the model.                                                    *)
(***************************************************************************)
MaxLen == 2         \* longest string leaf of a reply
MaxCalls == 2       \* remote calls issued in one behaviour

(***************************************************************************)
(* Python values.                                                          *)
(***************************************************************************)
NoneV == [t |-> "none", v |-> <<>>]
Str(s) == [t |-> "str", v |-> s]
IntV(n) == [t |-> "int", v |-> n]
FloatV(n) == [t |-> "float", v |-> n]
Dict(f) == [t |-> "dict", v |-> f]
NoItems == [k \in {} |-> NoneV]
EmptyDict == Dict(NoItems)

\* bool(x): the truth value Python's `if x:` and `not x` use
Truthy(x) ==
    CASE x.t = "none" -> FALSE
      [] x.t = "str" -> x.v # <<>>
      [] x.t = "int" -> x.v # 0
      [] x.t = "float" -> x.v # 0
      [] x.t = "dict" -> DOMAIN x.v # {}
      [] OTHER -> TRUE

\* d[k] = x on the items of a dict
Put(f, k, x) == [j \in DOMAIN f \cup {k} |-> IF j = k THEN x ELSE f[j]]

\* d.get(key, default)
Get(d, key, default) == IF key \in DOMAIN d.v THEN d.v[key] ELSE default

(***************************************************************************)
(* Outcomes of a call: a value returned or an exception raised.            *)
(***************************************************************************)
Return(x) == [kind |-> "return", val |-> x]
Raise(e) == [kind |-> "raise", exc |-> e]

(***************************************************************************)
(* Strings: strip, int(), float(), split("/").                             *)
(***************************************************************************)
Digits == <<"0", "1", "2", "3", "4", "5", "6", "7", "8", "9">>
IsDigit(c) == \E i \in 1..Len(Digits) : Digits[i] = c
DigitValue(c) == (CHOOSE i \in 1..Len(Digits) : Digits[i] = c) - 1
IsSpace(c) == c = " "

RECURSIVE LStrip(_)
LStrip(s) == IF s # <<>> /\ IsSpace(Head(s)) THEN LStrip(Tail(s)) ELSE s

RECURSIVE RStrip(_)
RStrip(s) ==
    IF s # <<>> /\ IsSpace(s[Len(s)]) THEN RStrip(SubSeq(s, 1, Len(s) - 1)) ELSE s

\* str.strip()
Strip(s) == RStrip(LStrip(s))

RECURSIVE Pow10(_)
Pow10(n) == IF n = 0 THEN 1 ELSE 10 * Pow10(n - 1)

RECURSIVE DigitsValue(_)
DigitsValue(s) ==
    IF s = <<>> THEN 0
    ELSE 10 * DigitsValue(SubSeq(s, 1, Len(s) - 1)) + DigitValue(s[Len(s)])

\* fraction digits a float keeps: no string of the model has more
FloatDigits == MaxLen + 1

\* int(s) of a string: surrounding whitespace ignored, then decimal digits only
ParseInt(s) ==
    LET b == Strip(s) IN
    IF b # <<>> /\ \A i \in 1..Len(b) : IsDigit(b[i])
    THEN Return(IntV(DigitsValue(b)))
    ELSE Raise("ValueError")

\* float(s) of a string: digits with at most one point, at least one digit
ParseFloat(s) ==
    LET b == Strip(s)
        points == {i \in 1..Len(b) : b[i] = "."}
        p == IF points = {} THEN Len(b) + 1 ELSE CHOOSE i \in points : TRUE
        whole == SubSeq(b, 1, p - 1)
        frac == SubSeq(b, p + 1, Len(b))
    IN  IF /\ Cardinality(points) <= 1
           /\ \A i \in 1..Len(b) : IsDigit(b[i]) \/ b[i] = "."
           /\ Len(whole) + Len(frac) >= 1
        THEN Return(FloatV(DigitsValue(whole) * Pow10(FloatDigits)
                           + DigitsValue(frac) * Pow10(FloatDigits - Len(frac))))
        ELSE Raise("ValueError")

\* type(x) for the coercions store is used with, x a string
Coerce(type, s) ==
    CASE type = "str" -> Return(Str(s))
      [] type = "int" -> ParseInt(s)
      [] type = "float" -> ParseFloat(s)

\* path.split("/"): a path is a sequence of tokens, each a key name or "/";
\* the keys between the separators, "" where two separators are adjacent
RECURSIVE SplitFrom(_, _)
SplitFrom(path, cur) ==
    IF path = <<>> THEN <<cur>>
    ELSE IF Head(path) = "/" THEN <<cur>> \o SplitFrom(Tail(path), "")
    ELSE SplitFrom(Tail(path), Head(path))

Split(path) == SplitFrom(path, "")

(***************************************************************************)
(* class Response                                                          *)
(***************************************************************************)
\* Response.__init__
Response(operation, clientresponse) ==
    [operation |-> operation, clientresponse |-> clientresponse, values |-> NoItems]

\* the loop of Response.find, from the value val reached so far
RECURSIVE FindLoop(_, _, _, _)
FindLoop(val, reply, keys, default) ==
    IF keys = <<>> THEN Return(val)
    ELSE LET from == IF Truthy(val) THEN val ELSE reply IN
         IF from.t # "dict" THEN Raise("AttributeError")
         ELSE LET next == Get(from, Head(keys), default) IN
              IF ~Truthy(next) THEN Return(next)
              ELSE FindLoop(next, reply, Tail(keys), default)

\* Response.find(resp, path, default)
find(reply, path, default) == FindLoop(NoneV, reply, Split(path), default)

\* CommunicationError(error, response)
CommunicationError(path, response) ==
    [kind |-> "raise", exc |-> "CommunicationError",
     error |-> <<"Client response malformed (cannot find ", path, ")">>,
     response |-> response]

\* Assign with the mapping replaced instead of updated
AssignFresh(values, name, x) == [j \in {name} |-> x]

\* self.values[name] = x
Assign(values, name, x) == Put(values, name, x)

\* Response.store(path, name, type): the Response after the call and the outcome
store(self, path, name, type) ==
    LET found == find(self.clientresponse, path, NoneV) IN
    IF found.kind = "raise" THEN [self |-> self, out |-> found]
    ELSE IF found.val = NoneV
    THEN [self |-> self, out |-> CommunicationError(path, self)]
    ELSE IF found.val.t # "str"
    THEN [self |-> self, out |-> Raise("AttributeError")]
    ELSE LET coerced == Coerce(type, Strip(found.val.v)) IN
         IF coerced.kind = "raise" THEN [self |-> self, out |-> coerced]
         ELSE [self |-> [self EXCEPT !.values = Assign(@, name, coerced.val)],
               out |-> Return(NoneV)]

\* the attributes normal lookup finds on a Response before __getattr__ is tried
OwnAttributes == {"operation", "clientresponse", "values", "find", "store"}

\* __getattr__ testing the stored value instead of the name's presence
getattrTruthy(self, name) ==
    IF name \notin DOMAIN self.values \/ ~Truthy(self.values[name])
    THEN [kind |-> "raise", exc |-> "AttributeError", error |-> <<name, " is not stored">>]
    ELSE Return(self.values[name])

\* Response.__getattr__(name)
getattr(self, name) ==
    IF name \notin DOMAIN self.values
    THEN [kind |-> "raise", exc |-> "AttributeError", error |-> <<name, " is not stored">>]
    ELSE Return(self.values[name])

\* reading self.<name>: __getattr__ is called only when normal lookup fails
ReadAttribute(self, name) ==
    CASE name = "operation" -> Return([t |-> "operation", v |-> self.operation])
      [] name = "clientresponse" -> Return(self.clientresponse)
      [] name = "values" -> Return(Dict(self.values))
      [] name \in {"find", "store"} -> Return([t |-> "method", v |-> name])
      [] OTHER -> getattr(self, name)

(***************************************************************************)
(* The remote client (boto3) is outside the module: a call on it either    *)
(* returns a reply or raises; the replies are nested dicts.                *)
(***************************************************************************)
Chars == {" ", "0", "4"}

RECURSIVE StringsOfLen(_)
StringsOfLen(n) ==
    IF n = 0 THEN {<<>>}
    ELSE {<<c>> \o s : c \in Chars, s \in StringsOfLen(n - 1)}

Strings == UNION {StringsOfLen(n) : n \in 0..MaxLen}

\* the leaves of a reply: strings, and a number
Leaves == {Str(s) : s \in Strings} \cup {IntV(0)}

Item(k, x) == Dict([j \in {k} |-> x])

Replies ==
    {EmptyDict}
    \cup {Item("AvailableBalance", l) : l \in Leaves}
    \cup {Item("HIT", x) : x \in {EmptyDict, IntV(0), Str(<<"4">>)}}
    \cup {Item("HIT", Item("HITId", l)) : l \in Leaves}
    \cup {Item("HIT", Dict([k \in {"HITId", "HITTypeId"} |->
                              IF k = "HITId" THEN Str(<<"4">>) ELSE l])) :
            l \in {Str(<<" ", "4">>), Str(<<>>)}}

\* the replies the remote client gives the Server in the model
RemoteReplies ==
    {EmptyDict,
     Item("HIT", EmptyDict),
     Item("HIT", Item("HITId", Str(<<"4">>))),
     Item("HIT", Dict([k \in {"HITId", "HITTypeId"} |->
                         IF k = "HITId" THEN Str(<<"4">>) ELSE Str(<<" ", "4">>)])),
     Item("AvailableBalance", Str(<<"4", ".">>)),
     Item("AvailableBalance", Str(<<>>))}

\* what one remote call does: it returns data, or it raises
RemoteOutcomes == {Return(d) : d \in RemoteReplies} \cup {Raise("ClientError")}

(***************************************************************************)
(* class Server                                                            *)
(***************************************************************************)
RemoteCall(name, kwargs, binds) == [name |-> name, kwargs |-> kwargs, binds |-> binds]

When(cond, calls) == IF cond THEN calls ELSE <<>>

\* the DisableHIT branch with the two calls in the other order
DisableHITCallsDeleteFirst(parameters) ==
    <<RemoteCall("delete_hit", parameters, TRUE),
      RemoteCall("update_expiration_for_hit", Put(parameters, "ExpireAt", IntV(0)), FALSE)>>

\* the two calls of the DisableHIT branch of Server.request
DisableHITCalls(parameters) ==
    <<RemoteCall("update_expiration_for_hit", Put(parameters, "ExpireAt", IntV(0)), FALSE),
      RemoteCall("delete_hit", parameters, TRUE)>>

\* the chain of `if operation == ...` of Server.request: the calls it makes on
\* the client, in order; binds says whether the call's result is bound to data
Dispatch(operation, parameters) ==
    When(operation = "CreateHIT",
         <<RemoteCall("create_hit", parameters, TRUE)>>)
    \o When(operation = "DisableHIT", DisableHITCalls(parameters))
    \o When(operation = "ApproveAssignment",
         <<RemoteCall("approve_assignment", parameters, TRUE)>>)
    \o When(operation = "RejectAssignment",
         <<RemoteCall("reject_assignment", parameters, TRUE)>>)
    \o When(operation = "GrantBonus",
         <<RemoteCall("send_bonus", parameters, TRUE)>>)
    \o When(operation = "BlockWorker",
         <<RemoteCall("create_worker_block", parameters, TRUE)>>)
    \o When(operation = "UnblockWorker",
         <<RemoteCall("delete_worker_block", parameters, TRUE)>>)
    \o When(operation = "NotifyWorkers",
         <<RemoteCall("notify_workers", parameters, TRUE)>>)
    \o When(operation = "GetAccountBalance",
         <<RemoteCall("get_account_balance", NoItems, TRUE)>>)

\* Run with a call that raised issued once more
RECURSIVE RunRetrying(_, _)
RunRetrying(plan, outs) ==
    IF plan = <<>> THEN <<>>
    ELSE LET done == [name |-> Head(plan).name, kwargs |-> Head(plan).kwargs,
                      binds |-> Head(plan).binds, result |-> Head(outs)] IN
         IF Head(outs).kind = "raise" THEN <<done, done>>
         ELSE <<done>> \o RunRetrying(Tail(plan), Tail(outs))

\* the calls of plan run in order against the outcomes outs, stopping at the
\* first that raises: each call issued, with what it did
RECURSIVE Run(_, _)
Run(plan, outs) ==
    IF plan = <<>> THEN <<>>
    ELSE LET done == [name |-> Head(plan).name, kwargs |-> Head(plan).kwargs,
                      binds |-> Head(plan).binds, result |-> Head(outs)] IN
         IF Head(outs).kind = "raise" THEN <<done>>
         ELSE <<done>> \o Run(Tail(plan), Tail(outs))

\* Server.request(operation, parameters), the remote calls having the outcomes
\* outs: the calls issued, the outcome, and the Response constructed (if any)
request(operation, parameters, outs) ==
    LET ran == Run(Dispatch(operation, parameters), outs)
        bound == {i \in 1..Len(ran) : ran[i].binds /\ ran[i].result.kind = "return"}
    IN  IF ran # <<>> /\ ran[Len(ran)].result.kind = "raise"
        THEN [issued |-> ran, out |-> ran[Len(ran)].result, made |-> <<>>]
        ELSE IF bound = {}
        THEN [issued |-> ran, out |-> Raise("UnboundLocalError"), made |-> <<>>]
        ELSE LET data == ran[CHOOSE i \in bound : \A j \in bound : j <= i].result.val
                 response == Response(operation, data)
             IN  [issued |-> ran, out |-> Return(response), made |-> <<response>>]

\* str(amount) of a non-negative integer
RECURSIVE DigitsOf(_)
DigitsOf(n) == IF n < 10 THEN <<Digits[n + 1]>> ELSE DigitsOf(n \div 10) \o <<Digits[(n % 10) + 1]>>

PyStr(x) == IF x.t = "int" THEN Str(DigitsOf(x.v)) ELSE x

\* the qualification list with `is not None` in place of the truth tests
QualificationsWhenNotNone(minapprovedpercent, minapprovedamount, countrycode) ==
    When(minapprovedpercent # NoneV,
         <<[QualificationTypeId |-> "000000000000000000L0",
            Comparator |-> "GreaterThanOrEqualTo",
            IntegerValues |-> <<minapprovedpercent>>]>>)
    \o When(minapprovedamount # NoneV,
         <<[QualificationTypeId |-> "00000000000000000040",
            Comparator |-> "GreaterThanOrEqualTo",
            IntegerValues |-> <<minapprovedamount>>]>>)
    \o When(countrycode # NoneV,
         <<[QualificationTypeId |-> "00000000000000000071",
            Comparator |-> "EqualTo",
            LocaleValues |-> <<[Country |-> countrycode]>>]>>)

\* the qualification list of Server.createhit
Qualifications(minapprovedpercent, minapprovedamount, countrycode) ==
    When(Truthy(minapprovedpercent),
         <<[QualificationTypeId |-> "000000000000000000L0",
            Comparator |-> "GreaterThanOrEqualTo",
            IntegerValues |-> <<minapprovedpercent>>]>>)
    \o When(Truthy(minapprovedamount),
         <<[QualificationTypeId |-> "00000000000000000040",
            Comparator |-> "GreaterThanOrEqualTo",
            IntegerValues |-> <<minapprovedamount>>]>>)
    \o When(Truthy(countrycode),
         <<[QualificationTypeId |-> "00000000000000000071",
            Comparator |-> "EqualTo",
            LocaleValues |-> <<[Country |-> countrycode]>>]>>)

\* the parameters Server.createhit sends with CreateHIT
CreateHITParameters(a, localhost) ==
    LET r == [Title |-> a.title,
              Description |-> a.description,
              Keywords |-> a.keywords,
              Reward |-> PyStr(a.amount),
              AssignmentDurationInSeconds |-> a.duration,
              AutoApprovalDelayInSeconds |-> a.autoapprove,
              LifetimeInSeconds |-> a.lifetime]
        qual == Qualifications(a.minapprovedpercent, a.minapprovedamount, a.countrycode)
        rq == IF qual # <<>> THEN Put(r, "QualificationRequirements", qual) ELSE r
    IN  Put(rq, "Question",
            <<"<ExternalQuestion xmlns=\"http://mechanicalturk.amazonaws.com/AWSMechanicalTurkDataSchemas/2006-07-14/ExternalQuestion.xsd\"><ExternalURL>",
              localhost, "/", a.page, "</ExternalURL><FrameHeight>", a.height,
              "</FrameHeight></ExternalQuestion>">>)

\* a method that returns what request returns
Forward(req) ==
    [issued |-> req.issued, out |-> req.out, made |-> req.made]

\* Server.createhit
createhit(a, localhost, outs) ==
    LET req == request("CreateHIT", CreateHITParameters(a, localhost), outs) IN
    IF req.out.kind = "raise" THEN Forward(req)
    ELSE LET s1 == store(req.out.val, <<"HIT", "/", "HITId">>, "hitid", "str") IN
         IF s1.out.kind = "raise"
         THEN [issued |-> req.issued, out |-> s1.out, made |-> <<s1.self>>]
         ELSE LET s2 == store(s1.self, <<"HIT", "/", "HITTypeId">>, "hittypeid", "str") IN
              IF s2.out.kind = "raise"
              THEN [issued |-> req.issued, out |-> s2.out, made |-> <<s2.self>>]
              ELSE [issued |-> req.issued, out |-> Return(s2.self), made |-> <<s2.self>>]

\* Server.disable
disable(hitid, outs) == Forward(request("DisableHIT", [HITId |-> hitid], outs))

\* Server.accept
accept(assignmentid, feedback, outs) ==
    Forward(request("ApproveAssignment",
                    [AssignmentId |-> assignmentid, RequesterFeedback |-> feedback], outs))

\* Server.reject
reject(assignmentid, feedback, outs) ==
    Forward(request("RejectAssignment",
                    [AssignmentId |-> assignmentid, RequesterFeedback |-> feedback], outs))

\* Server.bonus
bonus(workerid, assignmentid, amount, feedback, outs) ==
    Forward(request("GrantBonus",
                    [WorkerId |-> workerid, AssignmentId |-> assignmentid,
                     BonusAmount |-> PyStr(amount), Reason |-> feedback], outs))

\* Server.block
block(workerid, reason, outs) ==
    Forward(request("BlockWorker", [WorkerId |-> workerid, Reason |-> reason], outs))

\* Server.unblock
unblock(workerid, reason, outs) ==
    Forward(request("UnblockWorker", [WorkerId |-> workerid, Reason |-> reason], outs))

\* Server.email
email(workerid, subject, message, outs) ==
    Forward(request("NotifyWorkers",
                    [Subject |-> subject, MessageText |-> message,
                     WorkerIds |-> <<workerid>>], outs))

\* Server.balance
balance(outs) ==
    LET req == request("GetAccountBalance", NoItems, outs) IN
    IF req.out.kind = "raise" THEN Forward(req)
    ELSE LET s == store(req.out.val, <<"AvailableBalance">>, "amount", "float") IN
         IF s.out.kind = "raise"
         THEN [issued |-> req.issued, out |-> s.out, made |-> <<s.self>>]
         ELSE [issued |-> req.issued, out |-> ReadAttribute(s.self, "amount"),
               made |-> <<s.self>>]

\* an unimplemented member that disables a HIT instead of raising
unimplementedDisabling(method) ==
    Forward(request("DisableHIT", [HITId |-> Str(<<"H">>)],
                    <<Return(EmptyDict), Return(EmptyDict)>>))

\* Server.purge, getstatistic, rewardpayout, approvalpercentage, feepayout,
\* numcreated: raise NotImplementedError()
unimplemented(method) ==
    [issued |-> <<>>, out |-> Raise("NotImplementedError"), made |-> <<>>]

(***************************************************************************)
(* The Server: one action per public method.  Every action is one whole    *)
(* invocation, the outcomes of its remote calls chosen by the remote side. *)
(***************************************************************************)
Operations ==
    {"CreateHIT", "DisableHIT", "ApproveAssignment", "RejectAssignment", "GrantBonus",
     "BlockWorker", "UnblockWorker", "NotifyWorkers", "GetAccountBalance"}

\* an operation name Server.request does not know
OtherOperations == {"ListHITs"}

Unimplemented ==
    {"purge", "getstatistic", "rewardpayout", "approvalpercentage", "feepayout",
     "numcreated"}

Localhost == Str(<<"h">>)

\* the arguments of createhit the model varies: the three optional qualifications
CreateHITArguments ==
    {[title |-> Str(<<"t">>), description |-> Str(<<"d">>), page |-> Str(<<"p">>),
      amount |-> IntV(4), duration |-> IntV(60), lifetime |-> IntV(3600),
      keywords |-> Str(<<>>), autoapprove |-> IntV(604800), height |-> IntV(650),
      minapprovedpercent |-> mp, minapprovedamount |-> ma, countrycode |-> cc] :
        mp \in {NoneV, IntV(0), IntV(95)},
        ma \in {NoneV, IntV(0), IntV(100)},
        cc \in {NoneV, Str(<<>>), Str(<<"U", "S">>)}}

HitId == Str(<<"H">>)
WorkerId == Str(<<"W">>)
AssignmentId == Str(<<"A">>)
Text == Str(<<"x">>)

\* the remote calls of an invocation fit the bound of the model
CanIssue(r) == ncalls + Len(r.issued) <= MaxCalls

\* the Response most recently constructed, after an invocation with the effect r
Latest(r) == IF r.made = <<>> THEN resp ELSE r.made

Request ==
    \E operation \in Operations \cup OtherOperations, o1 \in RemoteOutcomes,
       o2 \in RemoteOutcomes :
        \* a second outcome is drawn only where a second call can be made
        /\ operation # "DisableHIT" => o2 = o1
        /\ \E r \in {request(operation, [HITId |-> HitId], <<o1, o2>>)} :
           /\ CanIssue(r)
           /\ ncalls' = ncalls + Len(r.issued)
           /\ issued' = r.issued
           /\ inv' = [method |-> "request", args |-> [operation |-> operation, parameters |-> [HITId |-> HitId]]]
           /\ out' = r.out
           /\ resp' = Latest(r)

CreateHit ==
    \E a \in CreateHITArguments, o \in RemoteOutcomes :
        \E r \in {createhit(a, Localhost, <<o>>)} :
        /\ CanIssue(r)
        /\ ncalls' = ncalls + Len(r.issued)
        /\ issued' = r.issued
        /\ inv' = [method |-> "createhit", args |-> a]
        /\ out' = r.out
        /\ resp' = Latest(r)

Disable ==
    \E o1, o2 \in RemoteOutcomes :
        \E r \in {disable(HitId, <<o1, o2>>)} :
        /\ CanIssue(r)
        /\ ncalls' = ncalls + Len(r.issued)
        /\ issued' = r.issued
        /\ inv' = [method |-> "disable", args |-> [hitid |-> HitId]]
        /\ out' = r.out
        /\ resp' = Latest(r)

Accept ==
    \E o \in RemoteOutcomes :
        \E r \in {accept(AssignmentId, Str(<<>>), <<o>>)} :
        /\ CanIssue(r)
        /\ ncalls' = ncalls + Len(r.issued)
        /\ issued' = r.issued
        /\ inv' = [method |-> "accept", args |-> [assignmentid |-> AssignmentId, feedback |-> Str(<<>>)]]
        /\ out' = r.out
        /\ resp' = Latest(r)

Reject ==
    \E o \in RemoteOutcomes :
        \E r \in {reject(AssignmentId, Text, <<o>>)} :
        /\ CanIssue(r)
        /\ ncalls' = ncalls + Len(r.issued)
        /\ issued' = r.issued
        /\ inv' = [method |-> "reject", args |-> [assignmentid |-> AssignmentId, feedback |-> Text]]
        /\ out' = r.out
        /\ resp' = Latest(r)

Bonus ==
    \E o \in RemoteOutcomes :
        \E r \in {bonus(WorkerId, AssignmentId, IntV(4), Text, <<o>>)} :
        /\ CanIssue(r)
        /\ ncalls' = ncalls + Len(r.issued)
        /\ issued' = r.issued
        /\ inv' = [method |-> "bonus", args |-> [workerid |-> WorkerId, assignmentid |-> AssignmentId,
                                           amount |-> IntV(4), feedback |-> Text]]
        /\ out' = r.out
        /\ resp' = Latest(r)

Block ==
    \E o \in RemoteOutcomes :
        \E r \in {block(WorkerId, Text, <<o>>)} :
        /\ CanIssue(r)
        /\ ncalls' = ncalls + Len(r.issued)
        /\ issued' = r.issued
        /\ inv' = [method |-> "block", args |-> [workerid |-> WorkerId, reason |-> Text]]
        /\ out' = r.out
        /\ resp' = Latest(r)

Unblock ==
    \E o \in RemoteOutcomes :
        \E r \in {unblock(WorkerId, Text, <<o>>)} :
        /\ CanIssue(r)
        /\ ncalls' = ncalls + Len(r.issued)
        /\ issued' = r.issued
        /\ inv' = [method |-> "unblock", args |-> [workerid |-> WorkerId, reason |-> Text]]
        /\ out' = r.out
        /\ resp' = Latest(r)

Email ==
    \E o \in RemoteOutcomes :
        \E r \in {email(WorkerId, Text, Text, <<o>>)} :
        /\ CanIssue(r)
        /\ ncalls' = ncalls + Len(r.issued)
        /\ issued' = r.issued
        /\ inv' = [method |-> "email", args |-> [workerid |-> WorkerId, subject |-> Text,
                                           message |-> Text]]
        /\ out' = r.out
        /\ resp' = Latest(r)

Balance ==
    \E o \in RemoteOutcomes :
        \E r \in {balance(<<o>>)} :
        /\ CanIssue(r)
        /\ ncalls' = ncalls + Len(r.issued)
        /\ issued' = r.issued
        /\ inv' = [method |-> "balance", args |-> NoItems]
        /\ out' = r.out
        /\ resp' = Latest(r)

NotImplemented ==
    \E method \in Unimplemented :
        \E r \in {unimplemented(method)} :
        /\ CanIssue(r)
        /\ ncalls' = ncalls + Len(r.issued)
        /\ issued' = r.issued
        /\ inv' = [method |-> method, args |-> NoItems]
        /\ out' = r.out
        /\ resp' = Latest(r)

\* after Server.__init__: nothing called, no Response constructed
Init ==
    /\ ncalls = 0
    /\ issued = <<>>
    /\ inv = [method |-> "__init__", args |-> NoItems]
    /\ out = Return(NoneV)
    /\ resp = <<>>

Next ==
    \/ Request
    \/ CreateHit
    \/ Disable
    \/ Accept
    \/ Reject
    \/ Bonus
    \/ Block
    \/ Unblock
    \/ Email
    \/ Balance
    \/ NotImplemented

Spec == Init /\ [][Next]_vars

(***************************************************************************)
(* One Response, constructed on any reply, and the calls made on it.       *)
(***************************************************************************)
Paths ==
    {<<"AvailableBalance">>, <<"HIT">>, <<"HIT", "/", "HITId">>,
     <<"HIT", "/", "HITTypeId">>, <<"HIT", "/", "HITId", "/", "HITId">>}

Names == {"hitid", "operation"}

Types == {"str", "int", "float"}

Defaults == {NoneV, Str(<<"4">>), Item("HITId", Str(<<"4">>))}

\* after Response.__init__(operation, clientresponse)
InitResponse ==
    /\ ncalls = 0
    /\ issued = <<>>
    /\ inv = [method |-> "__init__", args |-> NoItems]
    /\ out = Return(NoneV)
    /\ resp \in {<<Response("CreateHIT", d)>> : d \in Replies}

Find ==
    \E path \in Paths, default \in Defaults :
        /\ inv' = [method |-> "find", args |-> [path |-> path, default |-> default]]
        /\ out' = find(resp[1].clientresponse, path, default)
        /\ UNCHANGED <<ncalls, issued, resp>>

Store ==
    \E path \in Paths, name \in Names, type \in Types :
        LET s == store(resp[1], path, name, type) IN
        /\ inv' = [method |-> "store", args |-> [path |-> path, name |-> name, type |-> type]]
        /\ out' = s.out
        /\ resp' = <<s.self>>
        /\ UNCHANGED <<ncalls, issued>>

Read ==
    \E name \in Names \cup {"amount"} :
        /\ inv' = [method |-> "read", args |-> [name |-> name]]
        /\ out' = ReadAttribute(resp[1], name)
        /\ UNCHANGED <<ncalls, issued, resp>>

NextResponse ==
    \/ Find
    \/ Store
    \/ Read

SpecResponse == InitResponse /\ [][NextResponse]_vars

(***************************************************************************)
(* Properties of the Server, checked under Spec.                           *)
(***************************************************************************)
\* a parameter that was supplied: neither None, nor zero, nor empty
Supplied(x) == x \notin {NoneV, IntV(0), Str(<<>>)}

\* the entry each optional parameter of createhit asks for, in the fixed order
ExpectedRequirements(a) ==
    SelectSeq(
        <<[on |-> Supplied(a.minapprovedpercent),
           entry |-> [QualificationTypeId |-> "000000000000000000L0",
                      Comparator |-> "GreaterThanOrEqualTo",
                      IntegerValues |-> <<a.minapprovedpercent>>]],
          [on |-> Supplied(a.minapprovedamount),
           entry |-> [QualificationTypeId |-> "00000000000000000040",
                      Comparator |-> "GreaterThanOrEqualTo",
                      IntegerValues |-> <<a.minapprovedamount>>]],
          [on |-> Supplied(a.countrycode),
           entry |-> [QualificationTypeId |-> "00000000000000000071",
                      Comparator |-> "EqualTo",
                      LocaleValues |-> <<[Country |-> a.countrycode]>>]]>>,
        LAMBDA e : e.on)

\* C1: the CreateHIT request of createhit carries, under
\* QualificationRequirements, exactly one entry for each of minapprovedpercent,
\* minapprovedamount and countrycode that was supplied (non-empty, non-zero), in
\* that order, and no such key at all when none was supplied.
C1_QualificationsMatchSupplied ==
    inv.method = "createhit" =>
        /\ Len(issued) = 1
        /\ issued[1].name = "create_hit"
        /\ LET sent == issued[1].kwargs
               expected == ExpectedRequirements(inv.args)
           IN  IF expected = <<>>
               THEN "QualificationRequirements" \notin DOMAIN sent
               ELSE /\ "QualificationRequirements" \in DOMAIN sent
                    /\ Len(sent["QualificationRequirements"]) = Len(expected)
                    /\ \A i \in 1..Len(expected) :
                           sent["QualificationRequirements"][i] = expected[i].entry

\* C1 witness: createhit was called with the first and third parameter supplied
\* and the second given as zero, and sent two requirements
C1_Witness ==
    /\ inv.method = "createhit"
    /\ inv.args.minapprovedpercent = IntV(95)
    /\ inv.args.minapprovedamount = IntV(0)
    /\ inv.args.countrycode = Str(<<"U", "S">>)
    /\ Len(issued) = 1
    /\ "QualificationRequirements" \in DOMAIN issued[1].kwargs
    /\ Len(issued[1].kwargs["QualificationRequirements"]) = 2

\* the invocation is createhit or balance and its remote call returned a reply
PreExtracts == inv.method \in {"createhit", "balance"} /\ issued[1].result.kind = "return"

\* C2: whatever reply the remote call returns, createhit returns a Response with
\* hitid and hittypeid stored and balance returns the balance as a number, or
\* else the call raises CommunicationError whose response is the Response that
\* wraps that reply.
C2_ValueOrCommunicationError ==
    PreExtracts =>
        \/ /\ out.kind = "return"
           /\ inv.method = "createhit"
           /\ out.val = resp[1]
           /\ out.val.clientresponse = issued[1].result.val
           /\ {"hitid", "hittypeid"} \subseteq DOMAIN out.val.values
        \/ /\ out.kind = "return"
           /\ inv.method = "balance"
           /\ out.val.t = "float"
        \/ /\ out.kind = "raise"
           /\ out.exc = "CommunicationError"
           /\ out.response = resp[1]
           /\ out.response.clientresponse = issued[1].result.val

\* C3: a call of purge, getstatistic, rewardpayout, approvalpercentage, feepayout
\* or numcreated raises NotImplementedError and issues no remote call: the count
\* of remote calls is the same after it as before.
C3_UnimplementedNeverCalls ==
    [][inv'.method \in Unimplemented =>
          /\ out'.kind = "raise"
          /\ out'.exc = "NotImplementedError"
          /\ issued' = <<>>
          /\ ncalls' = ncalls]_vars

\* C3 witness: an unimplemented member was called after remote calls were made
C3_Witness ==
    /\ inv.method = "purge"
    /\ out = Raise("NotImplementedError")
    /\ ncalls = 2

\* C4: request with an operation name it does not know issues no remote call and
\* returns, without raising, a Response for that name that carries no reply data.
C4_UnknownOperationIsSilent ==
    (inv.method = "request" /\ inv.args.operation \notin Operations) =>
        /\ issued = <<>>
        /\ out.kind = "return"
        /\ out.val.operation = inv.args.operation
        /\ out.val.clientresponse = NoneV

\* the operation a public method sends
OperationOf ==
    [createhit |-> "CreateHIT", disable |-> "DisableHIT", accept |-> "ApproveAssignment",
     reject |-> "RejectAssignment", bonus |-> "GrantBonus", block |-> "BlockWorker",
     unblock |-> "UnblockWorker", email |-> "NotifyWorkers", balance |-> "GetAccountBalance"]

\* the call on the remote client a recognised operation stands for
ClientCallOf ==
    [CreateHIT |-> "create_hit", DisableHIT |-> "delete_hit",
     ApproveAssignment |-> "approve_assignment", RejectAssignment |-> "reject_assignment",
     GrantBonus |-> "send_bonus", BlockWorker |-> "create_worker_block",
     UnblockWorker |-> "delete_worker_block", NotifyWorkers |-> "notify_workers",
     GetAccountBalance |-> "get_account_balance"]

\* the last invocation sent a recognised operation
Dispatched ==
    \/ inv.method \in DOMAIN OperationOf
    \/ inv.method = "request" /\ inv.args.operation \in Operations

Operation == IF inv.method = "request" THEN inv.args.operation ELSE OperationOf[inv.method]

\* no call follows one that failed, and the failure is the outcome
NoRetry ==
    \A i \in 1..Len(issued) :
        issued[i].result.kind = "raise" => i = Len(issued) /\ out = issued[i].result

\* C5 as stated: every recognised operation, and so every public lifecycle
\* method, issues exactly one call on the remote client, with no retry.
C5_ExactlyOneCall ==
    Dispatched =>
        /\ Len(issued) = 1
        /\ issued[1].name = ClientCallOf[Operation]
        /\ NoRetry

\* C5 amended: every recognised operation other than DisableHIT issues exactly one
\* call on the remote client, the one it stands for; DisableHIT (and so disable)
\* issues update_expiration_for_hit and then delete_hit, or the first alone when
\* it fails; no call is retried after a failure.
C5_OneCallExceptDisable ==
    Dispatched =>
        /\ IF Operation = "DisableHIT"
           THEN /\ issued[1].name = "update_expiration_for_hit"
                /\ IF issued[1].result.kind = "raise"
                   THEN Len(issued) = 1
                   ELSE Len(issued) = 2 /\ issued[2].name = "delete_hit"
           ELSE /\ Len(issued) = 1
                /\ issued[1].name = ClientCallOf[Operation]
        /\ NoRetry

\* C5 witness: DisableHIT was dispatched through request and issued two calls,
\* the second of which failed
C5_Witness ==
    /\ inv.method = "request"
    /\ inv.args.operation = "DisableHIT"
    /\ Len(issued) = 2
    /\ out = Raise("ClientError")

\* C10: disable(hitid) issues update_expiration_for_hit on the HIT first; when
\* that raises, delete_hit is never issued and the failure is the outcome;
\* otherwise delete_hit is issued next on the same HIT, and the Response returned
\* wraps the reply of delete_hit and has nothing stored.
C10_ExpireThenDelete ==
    inv.method = "disable" =>
        /\ issued[1].name = "update_expiration_for_hit"
        /\ issued[1].kwargs = [HITId |-> inv.args.hitid, ExpireAt |-> IntV(0)]
        /\ IF issued[1].result.kind = "raise"
           THEN Len(issued) = 1 /\ out = issued[1].result
           ELSE /\ Len(issued) = 2
                /\ issued[2].name = "delete_hit"
                /\ issued[2].kwargs = [HITId |-> inv.args.hitid]
                /\ issued[2].result.kind = "return" =>
                       out = Return(Response("DisableHIT", issued[2].result.val))

\* C10 witness: disable ran both steps and returned the reply of the second,
\* which differs from the first's
C10_Witness ==
    /\ inv.method = "disable"
    /\ Len(issued) = 2
    /\ out.kind = "return"
    /\ issued[1].result.kind = "return"
    /\ out.val.clientresponse = issued[2].result.val
    /\ issued[1].result.val # issued[2].result.val

(***************************************************************************)
(* Properties of a Response, checked under SpecResponse.                   *)
(***************************************************************************)
\* the walk along keys stays inside nested mappings
RECURSIVE InsideMappings(_, _)
InsideMappings(cur, keys) ==
    \/ keys = <<>>
    \/ /\ cur.t = "dict"
       /\ \/ Head(keys) \notin DOMAIN cur.v
          \/ ~Truthy(cur.v[Head(keys)])
          \/ InsideMappings(cur.v[Head(keys)], Tail(keys))

\* the result the walk is said to have: the default where a key is missing or
\* maps to a falsy value, the value at the end of the path otherwise
RECURSIVE ValueOrDefault(_, _, _)
ValueOrDefault(cur, keys, default) ==
    IF keys = <<>> THEN cur
    ELSE IF Head(keys) \notin DOMAIN cur.v \/ ~Truthy(cur.v[Head(keys)]) THEN default
    ELSE ValueOrDefault(cur.v[Head(keys)], Tail(keys), default)

\* C6: for every reply of nested mappings, path and default, find returns the
\* value at the end of the path when every key on it is present with a non-falsy
\* value, and the default as soon as a key is missing or maps to a falsy value.
C6_FindValueOrDefault ==
    (inv.method = "find"
        /\ InsideMappings(resp[1].clientresponse, Split(inv.args.path))) =>
        out = Return(ValueOrDefault(resp[1].clientresponse, Split(inv.args.path),
                                    inv.args.default))

\* every leaf of the value is a string
RECURSIVE StringLeaves(_)
StringLeaves(x) ==
    \/ x.t = "str"
    \/ x.t = "dict" /\ \A k \in DOMAIN x.v : StringLeaves(x.v[k])

\* C7, for the coercion to str, which never fails itself: on a reply of nested
\* mappings and string leaves store either raises CommunicationError that refers
\* to this same Response, or stores under the name the trimmed value found at
\* the path; no other kind of failure occurs.
C7_StoreOrCommunicationError ==
    (inv.method = "store" /\ inv.args.type = "str"
        /\ StringLeaves(resp[1].clientresponse)) =>
        \/ /\ out.kind = "raise"
           /\ out.exc = "CommunicationError"
           /\ out.response = resp[1]
        \/ /\ out.kind = "return"
           /\ inv.args.name \in DOMAIN resp[1].values
           /\ LET found == find(resp[1].clientresponse, inv.args.path, NoneV) IN
              /\ found.kind = "return"
              /\ found.val.t = "str"
              /\ resp[1].values[inv.args.name] = Str(Strip(found.val.v))

\* what reading a name gives according to the mapping of stored values alone
StoredOrNotStored(name) ==
    IF name \in DOMAIN resp[1].values
    THEN out = Return(resp[1].values[name])
    ELSE /\ out.kind = "raise"
         /\ out.exc = "AttributeError"
         /\ out.error = <<name, " is not stored">>

\* C8 as stated: reading any name that no store has written raises the "is not
\* stored" AttributeError, and reading a stored name returns the stored value,
\* also when that value is 0 or the empty string.
C8_ReadIsStoredValue ==
    inv.method = "read" => StoredOrNotStored(inv.args.name)

\* C8 amended: the same, for every name that is not an attribute a Response has
\* by itself (operation, clientresponse, values, find, store): reading one of
\* those never reaches __getattr__ and gives the Response's own attribute.
C8_ReadIsStoredValueUnlessOwn ==
    (inv.method = "read" /\ inv.args.name \notin OwnAttributes) =>
        StoredOrNotStored(inv.args.name)

\* C8 witness: a name stored as 0 was read, and the read returned 0
C8_Witness ==
    /\ inv.method = "read"
    /\ inv.args.name = "hitid"
    /\ "hitid" \in DOMAIN resp[1].values
    /\ resp[1].values["hitid"] = IntV(0)
    /\ out = Return(IntV(0))

\* the mapping b is the mapping a with exactly the name written
WritesOne(a, b, name) ==
    /\ DOMAIN b = DOMAIN a \cup {name}
    /\ \A n \in DOMAIN a \ {name} : b[n] = a[n]

\* C9: the mapping of stored values starts empty, and every step keeps its
\* names: a store that succeeds adds or overwrites the one name it was given,
\* a store that raises, a find and a read leave the mapping as it was.
C9_StoredNamesOnlyGrow ==
    /\ resp[1].values = NoItems
    /\ [][/\ DOMAIN resp[1].values \subseteq DOMAIN resp'[1].values
          /\ IF inv'.method = "store" /\ out'.kind = "return"
             THEN WritesOne(resp[1].values, resp'[1].values, inv'.args.name)
             ELSE resp'[1].values = resp[1].values]_vars

\* C9 witness: two names are stored and the last store raised
C9_Witness ==
    /\ inv.method = "store"
    /\ out.kind = "raise"
    /\ DOMAIN resp[1].values = {"hitid", "operation"}

====
